---- MODULE Spec2Model ----
(***************************************************************************)
(* Verification model of ayyubibrahimi/info-agent.                         *)
(*                                                                         *)
(*  find-portal/src/fetch_portal.py  IndexCrawler: the multi-agent crawl   *)
(*  login-portal/src/login_handler.py, portal_agent.py, request_analyzer.py*)
(*                                                                         *)
(* Every answer of the LLM, of the network and of the terminal user is a   *)
(* nondeterministic input drawn from a small set.                          *)
(***************************************************************************)
EXTENDS Integers, Sequences, FiniteSets, TLC

(***************************************************************************)
(* Bounds of the model.                                                    *)
(***************************************************************************)
\* IndexCrawler(num_agents=...): the number of agents of the crawl.
NumAgents == 2
\* The code's attempt budget is 15 (fetch_portal.py:355); the model scales it
\* down, every property is stated relative to max_attempts.
MaxAttemptsBound == 3
\* Number of distinct URLs besides the start page.
NumUrls == 2
\* Longest target_agent_ids list the orchestrator returns.
MaxTargets == 2
\* Most links one extract_links call returns.
MaxLinks == 1

(***************************************************************************)
(* find-portal: values                                                     *)
(***************************************************************************)
\* None, for agent ids, URLs and depth values.
NoAgent == -1
NoUrl == -1
NoDepthValue == -1
\* current_url="" of a fresh agent.
EmptyUrl == -2
\* start_url of run().
StartUrl == 0

Urls == 1..NumUrls
max_attempts == MaxAttemptsBound
AgentIds == 0..(NumAgents - 1)

\* Confidence in percent: 0.95, 0.8 and 0.85 of the source.
FoundConfidence == 95
LowConfidence == 80
TruncBandHigh == 85

\* depth_value in tenths, as the link extractor may assign them.
DepthValues == {3, 9}

\* What the validator LLM may answer (is_valid, confidence).
RawValidations ==
    { [is_valid |-> FALSE, confidence |-> 30],
      [is_valid |-> TRUE,  confidence |-> 85],
      [is_valid |-> TRUE,  confidence |-> 95] }

VARIABLES
    agents,             \* IndexCrawler.agents: agent id -> AgentState
    previous_attempts,  \* IndexCrawler.previous_attempts
    visited_urls,       \* IndexCrawler.visited_urls
    exploration_links,  \* IndexCrawler.exploration_links
    winner_agent_id,    \* IndexCrawler.winner_agent_id (NoAgent: unset or None)
    cpc,                \* where run() is: "start", "loop", "gather", "done", "raised"
    tasks,              \* the run_agent coroutines handed to asyncio.gather, each
                        \* "new", "fetching", "done", "failed" (fetch or validation
                        \* raised), "failed_late" (the extractor raised) or "cancelled"
    results_file,       \* what save_results wrote (<<>>: nothing written)
    warned              \* the "Reached maximum attempts" warning was logged

crawlerVars == <<agents, previous_attempts, visited_urls, exploration_links,
                 winner_agent_id, cpc, tasks, results_file, warned>>

VARIABLES
    is_logged_in,      \* PortalAgent.is_logged_in
    request_workflow,  \* PortalAgent.request_workflow is set (not None)
    ppc,               \* where access_portal_session is: "idle" (not running),
                       \* "sign_in", "form", "submit" (inside attempt_login)
    login,             \* the attempt_login call in progress or last ended
    last_call          \* the last PortalAgent operation and what it returned

portalVars == <<is_logged_in, request_workflow, ppc, login, last_call>>

VARIABLES
    wpc,              \* where run_simplified_workflow and its callees are
    caller,           \* who called _handle_message_sending: "single" or "all"
    filters_result,   \* what setup_filters returned: "none", "true", "false"
    continue_answer,  \* the last answer to 'Continue anyway?' ("none": not asked)
    extracted,        \* extract_requests_with_llm was called
    wf_result,        \* what the workflow returned: "running", "success", "failure",
                      \* "interrupted" (KeyboardInterrupt left it)
    has_subject,      \* has_subject_field of the message input in progress
    relabel,          \* a _get_message_input_from_terminal waits for _edit_message
    subject,          \* the subject of the message being composed
    message,          \* its body, a sequence of lines
    lines,            \* message_lines, additional_lines or new_lines being typed
    preview,          \* what _preview_message showed last
    sent,             \* what this _handle_message_sending passed to
                      \* send_message_to_request (<<>>: nothing)
    last_answer,      \* the last input() read: the prompt and the answer
    msg_result        \* what _handle_message_sending returned

analyzerVars == <<wpc, caller, filters_result, continue_answer, extracted, wf_result,
                  has_subject, relabel, subject, message, lines, preview, sent,
                  last_answer, msg_result>>

\* Each program leaves the state of the others alone.
\* RequestManager behind PortalAgent's analyses: the position in the analysis,
\* the operation asked for, the pass of analyze_all_requests_intelligent, the
\* overview and the loop over it, how often each request was opened and
\* analysed, and the results.
VARIABLES
    mpc, mgr_op, mgr_pass, llm_helper, listed, request_numbers, req_index,
    opened, analysed, individual_analyses, failed_analyses, overall_summary,
    status_report, mgr_result

managerVars == <<mpc, mgr_op, mgr_pass, llm_helper, listed, request_numbers,
                 req_index, opened, analysed, individual_analyses,
                 failed_analyses, overall_summary, status_report, mgr_result>>

\* RequestFilterManager.setup_filters: its position, the checkboxes of the
\* page, the user's status choice, whether the status checkboxes could be
\* set, and the value returned.
VARIABLES fpc, page, status_choice, status_set, setup_result

filterVars == <<fpc, page, status_choice, status_set, setup_result>>

CrawlerFrame == UNCHANGED <<portalVars, analyzerVars, managerVars, filterVars>>
PortalFrame == UNCHANGED <<crawlerVars, analyzerVars, managerVars, filterVars>>
AnalyzerFrame == UNCHANGED <<crawlerVars, portalVars, managerVars, filterVars>>
ManagerFrame == UNCHANGED <<crawlerVars, portalVars, analyzerVars, filterVars>>
FiltersFrame == UNCHANGED <<crawlerVars, portalVars, analyzerVars, managerVars>>

(***************************************************************************)
(* find-portal: IndexCrawler                                               *)
(***************************************************************************)
\* AgentState as initialize_agents builds it (visited_urls of the agent,
\* which nothing reads, is left out).
AgentState(id) ==
    [ agent_id |-> id,
      current_url |-> EmptyUrl,
      current_depth |-> 0,
      validation_result |-> <<>>,
      parent_url |-> NoUrl,
      depth_value |-> NoDepthValue ]

initialize_agents == [id \in AgentIds |-> AgentState(id)]

\* validate_page: the LLM's answer, raised to 0.95 when the page was
\* truncated and the answer lies in [0.8, 0.85].
validate_page(raw, truncated) ==
    IF truncated /\ LowConfidence <= raw.confidence /\ raw.confidence <= TruncBandHigh
    THEN [raw EXCEPT !.confidence = FoundConfidence]
    ELSE raw

\* The link sets the extractor LLM may return for one page.
RawLinkSets ==
    { L \in SUBSET (Urls \X DepthValues) :
        /\ Cardinality(L) <= MaxLinks
        /\ \A a \in L, b \in L : a[1] = b[1] => a = b }

\* extract_links: every returned link gets parent_url = the page's url.
extract_links(url, raw) ==
    { [url |-> l[1], depth_value |-> l[2], parent_url |-> url] : l \in raw }

\* Sequences over S of length at most n.
SeqsUpTo(S, n) == UNION { [1..k -> S] : k \in 0..n }

\* target_urls: a map from some agent ids to URLs.
TargetUrlMaps == UNION { [D -> Urls] : D \in SUBSET AgentIds }

\* The (agent, url) pairs run() turns into run_agent coroutines.
RECURSIVE MakeTasks(_, _)
MakeTasks(ids, turls) ==
    IF ids = <<>> THEN <<>>
    ELSE LET id == Head(ids)
             rest == MakeTasks(Tail(ids), turls)
         IN IF id \in DOMAIN turls
            THEN <<[agent_id |-> id, url |-> turls[id], st |-> "new"]>> \o rest
            ELSE rest

\* The first recorded attempt of an agent (0: none).
FirstAttemptOf(id) ==
    IF \E i \in DOMAIN previous_attempts : previous_attempts[i].agent_id = id
    THEN CHOOSE i \in DOMAIN previous_attempts :
            /\ previous_attempts[i].agent_id = id
            /\ \A j \in 1..(i - 1) : previous_attempts[j].agent_id # id
    ELSE 0

\* save_results(winner): the file contents, <<>> when nothing is written.
save_results(winner) ==
    IF previous_attempts = <<>> \/ winner = NoAgent THEN <<>>
    ELSE IF FirstAttemptOf(winner) = 0 THEN <<>>
    ELSE << [ successful_url |-> previous_attempts[FirstAttemptOf(winner)].url,
              winner_agent_id |-> winner,
              total_attempts |-> Len(previous_attempts) ] >>

\* The end of run(): save_results, then the budget warning.
Finish(winner) ==
    /\ results_file' = save_results(winner)
    /\ warned' = (Len(previous_attempts) >= max_attempts)
    /\ cpc' = "done"

CrawlerInit ==
    /\ agents = [id \in AgentIds |-> AgentState(id)]
    /\ previous_attempts = <<>>
    /\ visited_urls = {}
    /\ exploration_links = {}
    /\ winner_agent_id = NoAgent
    /\ cpc = "start"
    /\ tasks = <<>>
    /\ results_file = <<>>
    /\ warned = FALSE

\* run(), up to the loop: initialize_agents, fetch the start page, extract links.
RunStart ==
    /\ CrawlerFrame
    /\ cpc = "start"
    /\ agents' = initialize_agents
    /\ \/ \E raw \in RawLinkSets :
            /\ exploration_links' = extract_links(StartUrl, raw)
            /\ cpc' = "loop"
       \/ \* fetch_content or the extractor raised
          /\ cpc' = "raised"
          /\ UNCHANGED exploration_links
    /\ UNCHANGED <<previous_attempts, visited_urls, winner_agent_id, tasks,
                   results_file, warned>>

\* The loop condition fails: save_results and the warning.
LoopExit ==
    /\ CrawlerFrame
    /\ cpc = "loop"
    /\ ~(Len(previous_attempts) < max_attempts)
    /\ Finish(winner_agent_id)
    /\ UNCHANGED <<agents, previous_attempts, visited_urls, exploration_links,
                   winner_agent_id, tasks>>

\* One pass of the loop body up to "await asyncio.gather": the orchestrator
\* decides 'terminate'.
DecideTerminate ==
    /\ CrawlerFrame
    /\ cpc = "loop"
    /\ Len(previous_attempts) < max_attempts
    /\ \E winner \in AgentIds \cup {NoAgent} :
        /\ winner_agent_id' = winner
        /\ Finish(winner)
    /\ UNCHANGED <<agents, previous_attempts, visited_urls, exploration_links, tasks>>

\* ... the orchestrator decides anything else: the tasks are built.
DecideExplore ==
    /\ CrawlerFrame
    /\ cpc = "loop"
    /\ Len(previous_attempts) < max_attempts
    /\ \E ids \in SeqsUpTo(AgentIds, MaxTargets), turls \in TargetUrlMaps :
        /\ tasks' = MakeTasks(ids, turls)
        /\ cpc' = "gather"
    /\ UNCHANGED <<agents, previous_attempts, visited_urls, exploration_links,
                   winner_agent_id, results_file, warned>>

\* ... the orchestrator call raises, or target_urls is None with agents listed.
DecideRaise ==
    /\ CrawlerFrame
    /\ cpc = "loop"
    /\ Len(previous_attempts) < max_attempts
    /\ cpc' = "raised"
    /\ UNCHANGED <<agents, previous_attempts, visited_urls, exploration_links,
                   winner_agent_id, tasks, results_file, warned>>

\* run_agent up to its first suspension (await fetch_content). The event
\* loop starts the coroutines in list order.
AgentStart(i) ==
    /\ CrawlerFrame
    /\ cpc = "gather"
    /\ i \in DOMAIN tasks
    /\ tasks[i].st = "new"
    /\ \A j \in 1..(i - 1) : tasks[j].st # "new"
    /\ agents' = [agents EXCEPT ![tasks[i].agent_id].current_url = tasks[i].url]
    /\ visited_urls' = visited_urls \cup {tasks[i].url}
    /\ tasks' = [tasks EXCEPT ![i].st = "fetching"]
    /\ UNCHANGED <<previous_attempts, exploration_links, winner_agent_id, cpc,
                   results_file, warned>>

AllStarted == \A j \in DOMAIN tasks : tasks[j].st # "new"

\* The attempt run_agent records.
Attempt(agent, url, v) ==
    [ agent_id |-> agent.agent_id,
      url |-> url,
      parent_url |-> agent.parent_url,
      depth |-> agent.current_depth,
      depth_value |-> agent.depth_value,
      validation_result |-> v ]

\* Links are extracted when the page is not valid or its confidence is below 0.8.
NeedsLinks(v) == ~v.is_valid \/ v.confidence < LowConfidence

\* run_agent from the return of fetch_content to its end.
AgentFinish(i) ==
    /\ CrawlerFrame
    /\ cpc = "gather"
    /\ i \in DOMAIN tasks
    /\ tasks[i].st = "fetching"
    /\ AllStarted
    /\ \E raw \in RawValidations, truncated \in BOOLEAN :
        LET t == tasks[i]
            v == validate_page(raw, truncated)
            agent == [agents[t.agent_id] EXCEPT !.validation_result = <<v>>]
        IN /\ agents' = [agents EXCEPT ![t.agent_id] = agent]
           /\ previous_attempts' = Append(previous_attempts, Attempt(agent, t.url, v))
           /\ IF NeedsLinks(v)
              THEN \/ \E links \in RawLinkSets :
                        /\ exploration_links' = exploration_links \cup
                              { l \in extract_links(t.url, links) :
                                    l.url \notin visited_urls }
                        /\ tasks' = [tasks EXCEPT ![i].st = "done"]
                   \/ \* the extractor raised
                      /\ tasks' = [tasks EXCEPT ![i].st = "failed_late"]
                      /\ UNCHANGED exploration_links
              ELSE /\ tasks' = [tasks EXCEPT ![i].st = "done"]
                   /\ UNCHANGED exploration_links
    /\ UNCHANGED <<visited_urls, winner_agent_id, cpc, results_file, warned>>

\* fetch_content or validate_page raises inside run_agent.
AgentFail(i) ==
    /\ CrawlerFrame
    /\ cpc = "gather"
    /\ i \in DOMAIN tasks
    /\ tasks[i].st = "fetching"
    /\ AllStarted
    /\ tasks' = [tasks EXCEPT ![i].st = "failed"]
    /\ UNCHANGED <<agents, previous_attempts, visited_urls, exploration_links,
                   winner_agent_id, cpc, results_file, warned>>

\* asyncio.gather returns: every coroutine ended normally.
GatherReturn ==
    /\ CrawlerFrame
    /\ cpc = "gather"
    /\ \A j \in DOMAIN tasks : tasks[j].st = "done"
    /\ cpc' = "loop"
    /\ tasks' = <<>>
    /\ UNCHANGED <<agents, previous_attempts, visited_urls, exploration_links,
                   winner_agent_id, results_file, warned>>

\* asyncio.gather re-raises the first exception: run() logs and re-raises it,
\* and asyncio.run cancels the coroutines still waiting.
GatherRaise ==
    /\ CrawlerFrame
    /\ cpc = "gather"
    /\ \E j \in DOMAIN tasks : tasks[j].st \in {"failed", "failed_late"}
    /\ cpc' = "raised"
    /\ tasks' = [j \in DOMAIN tasks |->
                    IF tasks[j].st = "fetching"
                    THEN [tasks[j] EXCEPT !.st = "cancelled"]
                    ELSE tasks[j]]
    /\ UNCHANGED <<agents, previous_attempts, visited_urls, exploration_links,
                   winner_agent_id, results_file, warned>>

CrawlerNext ==
    \/ RunStart
    \/ LoopExit
    \/ DecideTerminate
    \/ DecideExplore
    \/ DecideRaise
    \/ \E i \in 1..MaxTargets : AgentStart(i)
    \/ \E i \in 1..MaxTargets : AgentFinish(i)
    \/ \E i \in 1..MaxTargets : AgentFail(i)
    \/ GatherReturn
    \/ GatherRaise

(***************************************************************************)
(* login-portal: LoginHandler and PortalAgent                              *)
(***************************************************************************)
\* The lengths of sign_in_selectors and submit_selectors.
NumSignInSelectors == 9
NumSubmitSelectors == 8

NoLogin ==
    [ tried_sign_in |-> 0, sign_in_clicked |-> FALSE, tried_submit |-> 0,
      result |-> "none", error |-> "none", stage |-> "none" ]

NoCall == [ op |-> "none", success |-> FALSE, error |-> "none", browser |-> FALSE ]

PortalInit ==
    /\ is_logged_in = FALSE
    /\ request_workflow = FALSE
    /\ ppc = "idle"
    /\ login = NoLogin
    /\ last_call = NoCall

\* What one selector of _try_click_elements may do: the wait times out, the
\* element is clicked, or the wait or the click raises something else.
ClickOutcomes == {"timeout", "clicked", "raises"}

\* The except clause of _try_click_elements: only TimeoutException moves on
\* to the next selector.
TryNextSelector(outcome) == outcome = "timeout"

\* _evaluate_login_success: no error indicator and some success indicator.
evaluate_login_success(error_indicator, success_indicator) ==
    IF error_indicator THEN FALSE ELSE success_indicator

\* access_portal_session after attempt_login returned lg: the login status
\* is tracked.
LoginReturns(lg) ==
    /\ login' = lg
    /\ is_logged_in' = (lg.result = "success")
    /\ ppc' = "idle"
    /\ last_call' = [ op |-> "access_portal_session", success |-> lg.result = "success",
                      error |-> lg.error, browser |-> TRUE ]

LoginFailure(lg, error, stage) ==
    [lg EXCEPT !.result = "failure", !.error = error, !.stage = stage]

\* An exception inside attempt_login: its handler takes a screenshot and
\* returns the failure; when that screenshot raises too, access_portal_session
\* catches it and returns without touching is_logged_in.
LoginRaises(lg, stage) ==
    \/ /\ LoginReturns(LoginFailure(lg, "exception", stage))
       /\ UNCHANGED request_workflow
    \/ /\ login' = LoginFailure(lg, "session_error", stage)
       /\ ppc' = "idle"
       /\ last_call' = [ op |-> "access_portal_session", success |-> FALSE,
                         error |-> "session_error", browser |-> TRUE ]
       /\ UNCHANGED <<is_logged_in, request_workflow>>

\* access_portal_session up to the call of attempt_login.
AccessPortalSession ==
    /\ PortalFrame
    /\ ppc = "idle"
    /\ \E nav_ok \in BOOLEAN, credentials \in BOOLEAN :
        IF ~nav_ok
        THEN /\ last_call' = [ op |-> "access_portal_session", success |-> FALSE,
                               error |-> "navigation", browser |-> TRUE ]
             /\ UNCHANGED <<is_logged_in, request_workflow, ppc, login>>
        ELSE IF ~credentials
        THEN /\ is_logged_in' = FALSE
             /\ last_call' = [ op |-> "access_portal_session", success |-> FALSE,
                               error |-> "skipped", browser |-> TRUE ]
             /\ UNCHANGED <<request_workflow, ppc, login>>
        ELSE /\ ppc' = "sign_in"
             /\ login' = NoLogin
             /\ last_call' = [ op |-> "access_portal_session", success |-> FALSE,
                               error |-> "none", browser |-> TRUE ]
             /\ UNCHANGED <<is_logged_in, request_workflow>>

\* One iteration of _try_click_elements(sign_in_selectors, "sign in").
TrySignInSelector ==
    /\ PortalFrame
    /\ ppc = "sign_in"
    /\ login.tried_sign_in < NumSignInSelectors
    /\ \E outcome \in ClickOutcomes :
        LET lg == [login EXCEPT !.tried_sign_in = @ + 1] IN
        IF outcome = "clicked"
        THEN /\ login' = [lg EXCEPT !.sign_in_clicked = TRUE]
             /\ ppc' = "form"
             /\ UNCHANGED <<is_logged_in, request_workflow, last_call>>
        ELSE IF TryNextSelector(outcome)
        THEN /\ login' = lg
             /\ UNCHANGED <<is_logged_in, request_workflow, ppc, last_call>>
        ELSE LoginRaises(lg, "sign_in")

\* _try_click_elements returns False: "No sign in button found", go on.
SignInExhausted ==
    /\ PortalFrame
    /\ ppc = "sign_in"
    /\ login.tried_sign_in = NumSignInSelectors
    /\ ppc' = "form"
    /\ UNCHANGED <<is_logged_in, request_workflow, login, last_call>>

\* Screenshot, the form fields, and the credentials typed into them.
FillLoginForm ==
    /\ PortalFrame
    /\ ppc = "form"
    /\ \E found_username \in BOOLEAN, found_password \in BOOLEAN :
        IF ~found_username \/ ~found_password
        THEN /\ LoginReturns(LoginFailure(login, "Could not find login form fields", "form"))
             /\ UNCHANGED request_workflow
        ELSE \/ /\ ppc' = "submit"
                /\ UNCHANGED <<is_logged_in, request_workflow, login, last_call>>
             \/ LoginRaises(login, "form")

\* One iteration of _try_click_elements(submit_selectors, "submit"); after a
\* click the page is evaluated and access_portal_session ends.
TrySubmitSelector ==
    /\ PortalFrame
    /\ ppc = "submit"
    /\ login.tried_submit < NumSubmitSelectors
    /\ \E outcome \in ClickOutcomes :
        LET lg == [login EXCEPT !.tried_submit = @ + 1] IN
        IF outcome = "clicked"
        THEN \E error_indicator \in BOOLEAN, success_indicator \in BOOLEAN :
               IF evaluate_login_success(error_indicator, success_indicator)
               THEN /\ LoginReturns([lg EXCEPT !.result = "success", !.stage = "done"])
                    \* setup_request_workflow, unless the final screenshot or
                    \* the import raises
                    /\ \/ request_workflow' = TRUE
                       \/ UNCHANGED request_workflow
               ELSE \/ /\ LoginReturns([lg EXCEPT !.result = "failure", !.stage = "done"])
                       /\ UNCHANGED request_workflow
                    \/ \* the screenshot or the analysis after the click raises
                       LoginRaises(lg, "evaluate")
        ELSE IF TryNextSelector(outcome)
        THEN /\ login' = lg
             /\ UNCHANGED <<is_logged_in, request_workflow, ppc, last_call>>
        ELSE LoginRaises(lg, "submit")

\* _try_submit returns False: 'Could not find submit button'.
SubmitExhausted ==
    /\ PortalFrame
    /\ ppc = "submit"
    /\ login.tried_submit = NumSubmitSelectors
    /\ LoginReturns(LoginFailure(login, "Could not find submit button", "submit"))
    /\ UNCHANGED request_workflow

\* The operations of PortalAgent that need a session. Each returns what the
\* caller gets (success, error) and whether the browser or the LLM was used.
Result(op, success, error, browser) ==
    [ op |-> op, success |-> success, error |-> error, browser |-> browser ]

GuardedOps ==
    { "submit_public_records_request", "analyze_existing_requests",
      "get_urgent_requests_summary", "analyze_specific_requests" }

\* The error each operation returns when is_logged_in is false.
MustBeLoggedIn(op) ==
    CASE op = "submit_public_records_request" -> "Must be logged in to submit requests"
      [] op = "analyze_existing_requests" -> "Must be logged in to analyze requests"
      [] op = "get_urgent_requests_summary" -> "Must be logged in to check requests"
      [] op = "analyze_specific_requests" -> "Must be logged in to analyze requests"

\* What the browser-driven part of an operation may end in.
BrowserOutcomes == {"ok", "failed", "raises"}

BrowserResult(op, outcome) ==
    Result(op, outcome = "ok", IF outcome = "ok" THEN "none" ELSE outcome, TRUE)

\* submit_public_records_request; setup_ok: setup_request_workflow succeeds.
submit_public_records_request(logged_in, has_workflow, setup_ok, outcome) ==
    LET op == "submit_public_records_request" IN
    IF ~logged_in THEN Result(op, FALSE, MustBeLoggedIn(op), FALSE)
    ELSE IF ~has_workflow /\ ~setup_ok
    THEN Result(op, FALSE, "Request functionality not available", FALSE)
    ELSE BrowserResult(op, outcome)

analyze_existing_requests_unguarded(logged_in, outcome) ==
    BrowserResult("analyze_existing_requests", outcome)

\* analyze_existing_requests, with detailed_analysis or without.
analyze_existing_requests(logged_in, outcome) ==
    LET op == "analyze_existing_requests" IN
    IF ~logged_in THEN Result(op, FALSE, MustBeLoggedIn(op), FALSE)
    ELSE BrowserResult(op, outcome)

get_urgent_requests_summary(logged_in, outcome) ==
    LET op == "get_urgent_requests_summary" IN
    IF ~logged_in THEN Result(op, FALSE, MustBeLoggedIn(op), FALSE)
    ELSE BrowserResult(op, outcome)

analyze_specific_requests(logged_in, outcome) ==
    LET op == "analyze_specific_requests" IN
    IF ~logged_in THEN Result(op, FALSE, MustBeLoggedIn(op), FALSE)
    ELSE BrowserResult(op, outcome)

SubmitPublicRecordsRequest ==
    /\ PortalFrame
    /\ ppc = "idle"
    /\ \E setup_ok \in BOOLEAN, outcome \in BrowserOutcomes :
        /\ last_call' = submit_public_records_request(is_logged_in, request_workflow,
                                                      setup_ok, outcome)
        /\ request_workflow' = (request_workflow \/ (is_logged_in /\ setup_ok))
    /\ UNCHANGED <<is_logged_in, ppc, login>>

AnalyzeExistingRequests ==
    /\ PortalFrame
    /\ ppc = "idle"
    /\ \E outcome \in BrowserOutcomes :
        last_call' = analyze_existing_requests(is_logged_in, outcome)
    /\ UNCHANGED <<is_logged_in, request_workflow, ppc, login>>

GetUrgentRequestsSummary ==
    /\ PortalFrame
    /\ ppc = "idle"
    /\ \E outcome \in BrowserOutcomes :
        last_call' = get_urgent_requests_summary(is_logged_in, outcome)
    /\ UNCHANGED <<is_logged_in, request_workflow, ppc, login>>

AnalyzeSpecificRequests ==
    /\ PortalFrame
    /\ ppc = "idle"
    /\ \E outcome \in BrowserOutcomes :
        last_call' = analyze_specific_requests(is_logged_in, outcome)
    /\ UNCHANGED <<is_logged_in, request_workflow, ppc, login>>

PortalNext ==
    \/ AccessPortalSession
    \/ TrySignInSelector
    \/ SignInExhausted
    \/ FillLoginForm
    \/ TrySubmitSelector
    \/ SubmitExhausted
    \/ SubmitPublicRecordsRequest
    \/ AnalyzeExistingRequests
    \/ GetUrgentRequestsSummary
    \/ AnalyzeSpecificRequests

(***************************************************************************)
(* login-portal: RequestAnalyzer.run_simplified_workflow                   *)
(***************************************************************************)
\* Most lines the user types into one input loop, and most of a body.
MaxLines == 1
MaxMessageLines == 2
\* Number of message templates offered, and of distinct texts a user types.
NumTemplates == 1
NumTexts == 1

\* Texts: "" or a blank line, what the user typed, the text of template k.
NoText == 0
Texts == 1..NumTexts
TemplateText(k) == NumTexts + k
TypedLines == {NoText} \cup Texts

NoAnswer == [prompt |-> "none", answer |-> "none"]
NoResult == [success |-> FALSE, error |-> "none"]
Draft(subj, msg) == [subject |-> subj, message |-> msg]

AnalyzerInit ==
    /\ wpc = "start"
    /\ caller = "none"
    /\ filters_result = "none"
    /\ continue_answer = "none"
    /\ extracted = FALSE
    /\ wf_result = "running"
    /\ has_subject = FALSE
    /\ relabel = FALSE
    /\ subject = NoText
    /\ message = <<>>
    /\ lines = <<>>
    /\ preview = Draft(NoText, <<>>)
    /\ sent = <<>>
    /\ last_answer = NoAnswer
    /\ msg_result = NoResult

wfVars == <<filters_result, continue_answer, extracted>>
draftVars == <<has_subject, relabel, subject, message, lines, preview>>
msgVars == <<caller, sent, msg_result>>

\* setup_filters: the HTML analysis, the Requester checkbox, the status
\* checkboxes (whose failure is only logged) and Ctrl+Enter.
setup_filters(analysis_ok, requester_ok, status_ok, apply_ok) ==
    IF ~analysis_ok THEN FALSE
    ELSE IF ~requester_ok THEN FALSE
    ELSE IF ~apply_ok THEN FALSE
    ELSE TRUE

\* 'Continue anyway?': what goes on and what ends the workflow.
ContinueAcceptsAnything(choice) == choice \notin {"n", "no"}
ContinueAccepts(choice) == choice \in {"y", "yes"}
ContinueDeclines(choice) == choice \in {"n", "no"}

\* _handle_message_sending sends when the message input reports success.
ShouldSendAlways(success) == TRUE
ShouldSend(success) == success

\* "\n".join(message_lines).strip(): blank lines at both ends are dropped.
RECURSIVE StripLeft(_)
StripLeft(ls) ==
    IF ls # <<>> /\ Head(ls) = NoText THEN StripLeft(Tail(ls)) ELSE ls
RECURSIVE StripRight(_)
StripRight(ls) ==
    IF ls # <<>> /\ ls[Len(ls)] = NoText
    THEN StripRight(SubSeq(ls, 1, Len(ls) - 1)) ELSE ls
Strip(ls) == StripRight(StripLeft(ls))

Ask(prompt, answer) == last_answer' = [prompt |-> prompt, answer |-> answer]

\* run_simplified_workflow returns.
WorkflowEnds(result) ==
    /\ wpc' = "ended"
    /\ wf_result' = result

\* run_simplified_workflow up to the return of setup_filters.
StartWorkflow ==
    /\ AnalyzerFrame
    /\ wpc = "start"
    /\ \/ \* no LLM helper, the navigation fails, or setup_filters raises
          /\ WorkflowEnds("failure")
          /\ UNCHANGED filters_result
       \/ \E analysis_ok \in BOOLEAN, requester_ok \in BOOLEAN,
             status_ok \in BOOLEAN, apply_ok \in BOOLEAN :
            IF setup_filters(analysis_ok, requester_ok, status_ok, apply_ok)
            THEN /\ filters_result' = "true"
                 /\ wpc' = "extract"
                 /\ UNCHANGED wf_result
            ELSE /\ filters_result' = "false"
                 /\ wpc' = "ask_continue"
                 /\ UNCHANGED wf_result
    /\ UNCHANGED <<continue_answer, extracted, last_answer, draftVars, msgVars>>

\* The 'Continue anyway? (y/n)' loop.
AnswerContinue ==
    /\ AnalyzerFrame
    /\ wpc = "ask_continue"
    /\ \E choice \in {"y", "yes", "n", "no", "other"} :
        /\ continue_answer' = choice
        /\ Ask("continue", choice)
        /\ IF ContinueAccepts(choice)
           THEN wpc' = "extract" /\ UNCHANGED wf_result
           ELSE IF ContinueDeclines(choice)
           THEN WorkflowEnds("failure")
           ELSE UNCHANGED <<wpc, wf_result>>
    /\ UNCHANGED <<filters_result, extracted, draftVars, msgVars>>

\* input() raises at 'Continue anyway?': EOFError ends the workflow with
\* success False, KeyboardInterrupt leaves it.
ContinueInputRaises ==
    /\ AnalyzerFrame
    /\ wpc = "ask_continue"
    /\ \E kind \in {"eof", "interrupt"} :
        /\ Ask("continue", kind)
        /\ WorkflowEnds(IF kind = "eof" THEN "failure" ELSE "interrupted")
    /\ UNCHANGED <<wfVars, draftVars, msgVars>>

\* Step 1 and 2: extract_requests_with_llm, and the list shown.
ExtractRequests ==
    /\ AnalyzerFrame
    /\ wpc = "extract"
    /\ extracted' = TRUE
    /\ \/ wpc' = "choose" /\ UNCHANGED wf_result
       \/ \* nothing extracted, or the extraction raises
          WorkflowEnds("failure")
    /\ UNCHANGED <<filters_result, continue_answer, last_answer, draftVars, msgVars>>

\* Step 3: 'Choose a request to analyze', then the analysis of one request
\* or of all of them.
ChooseRequest ==
    /\ AnalyzerFrame
    /\ wpc = "choose"
    /\ \E choice \in {"0", "k", "invalid", "interrupt", "eof"} :
        /\ Ask("choose", choice)
        /\ CASE choice = "invalid" -> UNCHANGED <<wpc, wf_result, caller>>
             [] choice \in {"interrupt", "eof"} ->
                    WorkflowEnds("failure") /\ UNCHANGED caller
             [] choice = "k" ->
                    \* _analyze_single_request: click and analyse the request
                    /\ caller' = "single"
                    /\ \/ wpc' = "action_menu" /\ UNCHANGED wf_result
                       \/ WorkflowEnds("failure")
             [] choice = "0" ->
                    \* _analyze_all_requests: every request, then the summary
                    /\ caller' = "all"
                    /\ \/ wpc' = "msg_menu" /\ UNCHANGED wf_result
                       \/ WorkflowEnds("success")
                       \/ WorkflowEnds("failure")
    /\ UNCHANGED <<wfVars, draftVars, sent, msg_result>>

\* _handle_message_sending up to the template menu: the message button, the
\* click, the composer analysis, the templates.
BeginMessage(from) ==
    /\ sent' = <<>>
    /\ relabel' = FALSE
    /\ subject' = NoText
    /\ message' = <<>>
    /\ lines' = <<>>
    /\ preview' = Draft(NoText, <<>>)
    /\ \/ \E subject_field \in BOOLEAN :
            /\ has_subject' = subject_field
            /\ wpc' = "templates"
            /\ msg_result' = NoResult
       \/ \* button, click or composer not found, or an exception
          /\ wpc' = "after_message"
          /\ msg_result' = [success |-> FALSE, error |-> "interface"]
          /\ UNCHANGED has_subject
    /\ UNCHANGED <<wfVars, wf_result, caller>>

\* 'Choose an action (1-3)' of _analyze_single_request.
ActionMenu ==
    /\ AnalyzerFrame
    /\ wpc = "action_menu"
    /\ \E choice \in {"1", "2", "3", "other", "interrupt", "eof"} :
        /\ Ask("action", choice)
        /\ CASE choice = "1" -> BeginMessage("single")
             [] choice \in {"2", "3", "interrupt"} ->
                    /\ WorkflowEnds("success")
                    /\ UNCHANGED <<wfVars, draftVars, msgVars>>
             [] choice = "eof" ->
                    /\ WorkflowEnds("failure")
                    /\ UNCHANGED <<wfVars, draftVars, msgVars>>
             [] choice = "other" ->
                    UNCHANGED <<wpc, wf_result, wfVars, draftVars, msgVars>>

\* 'Send message to which request?' of _analyze_all_requests.
MessageMenu ==
    /\ AnalyzerFrame
    /\ wpc = "msg_menu"
    /\ \E choice \in {"0", "k", "invalid", "interrupt", "eof"} :
        /\ Ask("msg_menu", choice)
        /\ CASE choice = "k" ->
                    \/ BeginMessage("all")
                    \/ \* the request could not be opened
                       /\ wpc' = "after_message"
                       /\ sent' = <<>>
                       /\ msg_result' = NoResult
                       /\ UNCHANGED <<wf_result, wfVars, draftVars, caller>>
             [] choice \in {"0", "interrupt"} ->
                    /\ WorkflowEnds("success")
                    /\ UNCHANGED <<wfVars, draftVars, msgVars>>
             [] choice = "eof" ->
                    /\ WorkflowEnds("failure")
                    /\ UNCHANGED <<wfVars, draftVars, msgVars>>
             [] choice = "invalid" ->
                    UNCHANGED <<wpc, wf_result, wfVars, draftVars, msgVars>>

\* The message input returned (ok, err) with the message (subj, msg): the
\* rest of _handle_message_sending.
InputReturns(ok, err, subj, msg) ==
    /\ wpc' = "after_message"
    /\ IF ShouldSend(ok)
       THEN /\ sent' = <<Draft(subj, msg)>>
            /\ \E send_ok \in BOOLEAN :
                 msg_result' = [success |-> send_ok,
                                error |-> IF send_ok THEN "none" ELSE "send failed"]
       ELSE /\ sent' = <<>>
            /\ msg_result' = [success |-> FALSE,
                              error |-> IF relabel THEN "Message editing cancelled"
                                        ELSE err]
    /\ UNCHANGED <<wfVars, wf_result, caller>>

\* 'Choose option (1-6)' of _offer_message_templates.
TemplateMenu ==
    /\ AnalyzerFrame
    /\ wpc = "templates"
    /\ \E choice \in {"template", "5", "6", "other"} :
        /\ Ask("templates", choice)
        /\ CASE choice = "template" ->
                    \E k \in 1..NumTemplates :
                        /\ subject' = TemplateText(k)
                        /\ message' = <<TemplateText(k)>>
                        /\ preview' = Draft(TemplateText(k), <<TemplateText(k)>>)
                        /\ wpc' = "use_template"
                        /\ UNCHANGED <<wfVars, wf_result, msgVars, has_subject,
                                       relabel, lines>>
             [] choice = "5" ->
                    \* _get_message_input_from_terminal(has_subject_field)
                    /\ wpc' = IF has_subject THEN "subject" ELSE "lines"
                    /\ subject' = NoText
                    /\ message' = <<>>
                    /\ lines' = <<>>
                    /\ UNCHANGED <<wfVars, wf_result, msgVars, has_subject,
                                   relabel, preview>>
             [] choice = "6" ->
                    /\ InputReturns(FALSE, "User cancelled", subject, message)
                    /\ UNCHANGED draftVars
             [] choice = "other" ->
                    UNCHANGED <<wpc, wf_result, wfVars, draftVars, msgVars>>

\* 'Use this template? (y/n/edit)'.
UseTemplate ==
    /\ AnalyzerFrame
    /\ wpc = "use_template"
    /\ \E action \in {"y", "yes", "n", "no", "e", "edit", "other"} :
        /\ Ask("use_template", action)
        /\ CASE action \in {"y", "yes"} ->
                    /\ InputReturns(TRUE, "none", subject, message)
                    /\ UNCHANGED draftVars
             [] action \in {"n", "no"} ->
                    /\ wpc' = "templates"
                    /\ UNCHANGED <<wf_result, wfVars, draftVars, msgVars>>
             [] action \in {"e", "edit"} ->
                    \* _edit_message(subject, message, True)
                    /\ wpc' = "edit_menu"
                    /\ has_subject' = TRUE
                    /\ UNCHANGED <<wf_result, wfVars, msgVars, relabel, subject,
                                   message, lines, preview>>
             [] action = "other" ->
                    UNCHANGED <<wpc, wf_result, wfVars, draftVars, msgVars>>

\* 'Subject:' of _get_message_input_from_terminal, until it is not empty.
TypeSubject ==
    /\ AnalyzerFrame
    /\ wpc = "subject"
    /\ \E text \in {NoText} \cup Texts :
        /\ Ask("subject", "text")
        /\ IF text # NoText
           THEN subject' = text /\ wpc' = "lines"
           ELSE UNCHANGED <<subject, wpc>>
    /\ UNCHANGED <<wf_result, wfVars, msgVars, has_subject, relabel, message,
                   lines, preview>>

\* The message lines loop: a line, SEND, CANCEL, PREVIEW or Ctrl-C.
TypeLine ==
    /\ AnalyzerFrame
    /\ wpc = "lines"
    /\ \/ \E line \in TypedLines :
            /\ Len(lines) < MaxLines
            /\ Ask("lines", "text")
            /\ lines' = Append(lines, line)
            /\ UNCHANGED <<wpc, wf_result, wfVars, msgVars, has_subject, relabel,
                           subject, message, preview>>
       \/ /\ Ask("lines", "SEND")
          /\ IF lines # <<>>
             THEN /\ message' = Strip(lines)
                  /\ preview' = Draft(subject, Strip(lines))
                  /\ lines' = <<>>
                  /\ wpc' = "confirm"
             ELSE UNCHANGED <<message, preview, lines, wpc>>
          /\ UNCHANGED <<wf_result, wfVars, msgVars, has_subject, relabel, subject>>
       \/ /\ Ask("lines", "PREVIEW")
          /\ preview' = Draft(subject, lines)
          /\ UNCHANGED <<wpc, wf_result, wfVars, msgVars, has_subject, relabel,
                         subject, message, lines>>
       \/ \E cancel \in {"CANCEL", "interrupt"} :
            /\ Ask("lines", cancel)
            /\ InputReturns(FALSE, "User cancelled message", subject, message)
            /\ UNCHANGED draftVars
       \/ \* EOFError passes the inner handler and is caught by the outer one
          /\ Ask("lines", "eof")
          /\ InputReturns(FALSE, "EOF when reading a line", subject, message)
          /\ UNCHANGED draftVars

\* 'Send this message? (y/n/edit)'.
ConfirmSend ==
    /\ AnalyzerFrame
    /\ wpc = "confirm"
    /\ \E confirm \in {"y", "yes", "n", "no", "e", "edit", "other"} :
        /\ Ask("confirm", confirm)
        /\ CASE confirm \in {"y", "yes"} ->
                    /\ InputReturns(TRUE, "none", subject, message)
                    /\ UNCHANGED draftVars
             [] confirm \in {"n", "no"} ->
                    /\ InputReturns(FALSE, "User chose not to send message",
                                    subject, message)
                    /\ UNCHANGED draftVars
             [] confirm \in {"e", "edit"} ->
                    \* _edit_message; a failure comes back as 'Message editing
                    \* cancelled'
                    /\ wpc' = "edit_menu"
                    /\ relabel' = TRUE
                    /\ UNCHANGED <<wf_result, wfVars, msgVars, has_subject, subject,
                                   message, lines, preview>>
             [] confirm = "other" ->
                    UNCHANGED <<wpc, wf_result, wfVars, draftVars, msgVars>>

\* 'What would you like to edit? (1-4)' of _edit_message.
EditMenu ==
    /\ AnalyzerFrame
    /\ wpc = "edit_menu"
    /\ \E choice \in {"1", "2", "3", "4", "other"} :
        /\ Ask("edit_menu", choice)
        /\ CASE choice = "1" /\ has_subject ->
                    /\ wpc' = "edit_subject"
                    /\ UNCHANGED <<wf_result, wfVars, draftVars, msgVars>>
             [] choice = "2" ->
                    /\ wpc' = "edit_body"
                    /\ UNCHANGED <<wf_result, wfVars, draftVars, msgVars>>
             [] choice = "3" ->
                    \* _get_message_input_from_terminal starts over
                    /\ wpc' = IF has_subject THEN "subject" ELSE "lines"
                    /\ subject' = NoText
                    /\ message' = <<>>
                    /\ lines' = <<>>
                    /\ UNCHANGED <<wf_result, wfVars, msgVars, has_subject, relabel,
                                   preview>>
             [] choice = "4" ->
                    /\ InputReturns(FALSE, "Editing cancelled", subject, message)
                    /\ UNCHANGED draftVars
             [] OTHER ->
                    UNCHANGED <<wpc, wf_result, wfVars, draftVars, msgVars>>

\* 'New subject (or press Enter to keep current)', then the preview.
EditSubject ==
    /\ AnalyzerFrame
    /\ wpc = "edit_subject"
    /\ \E text \in {NoText} \cup Texts :
        /\ Ask("edit_subject", "text")
        /\ subject' = IF text # NoText THEN text ELSE subject
        /\ preview' = Draft(subject', message)
        /\ wpc' = "edit_next"
    /\ UNCHANGED <<wf_result, wfVars, msgVars, has_subject, relabel, message, lines>>

\* 'Choose option (a/b/c)' of the body edit.
EditBody ==
    /\ AnalyzerFrame
    /\ wpc = "edit_body"
    /\ \E choice \in {"a", "b", "c"} :
        /\ Ask("edit_body", choice)
        /\ CASE choice = "a" ->
                    /\ wpc' = "edit_add"
                    /\ lines' = <<>>
                    /\ UNCHANGED preview
             [] choice = "b" ->
                    /\ wpc' = "edit_replace"
                    /\ lines' = <<>>
                    /\ UNCHANGED preview
             [] choice = "c" ->
                    /\ preview' = Draft(subject, message)
                    /\ wpc' = "edit_next"
                    /\ UNCHANGED lines
    /\ UNCHANGED <<wf_result, wfVars, msgVars, has_subject, relabel, subject, message>>

\* The lines typed to add to or to replace the body, until DONE.
EditLines ==
    /\ AnalyzerFrame
    /\ wpc \in {"edit_add", "edit_replace"}
    /\ \/ \E line \in TypedLines :
            /\ Len(lines) < MaxLines
            /\ wpc = "edit_add" => Len(message) + Len(lines) < MaxMessageLines
            /\ Ask(wpc, "text")
            /\ lines' = Append(lines, line)
            /\ UNCHANGED <<wpc, message, preview>>
       \/ /\ Ask(wpc, "DONE")
          /\ message' = IF lines = <<>> THEN message
                        ELSE IF wpc = "edit_add" THEN message \o lines
                        ELSE lines
          /\ preview' = Draft(subject, message')
          /\ wpc' = "edit_next"
          /\ lines' = <<>>
    /\ UNCHANGED <<wf_result, wfVars, msgVars, has_subject, relabel, subject>>

\* 'Make more edits (e), send message (s), or cancel (c)?'.
EditNext ==
    /\ AnalyzerFrame
    /\ wpc = "edit_next"
    /\ \E next_action \in {"e", "edit", "s", "send", "c", "cancel", "other"} :
        /\ Ask("edit_next", next_action)
        /\ CASE next_action \in {"e", "edit"} ->
                    /\ wpc' = "edit_menu"
                    /\ UNCHANGED <<wf_result, wfVars, draftVars, msgVars>>
             [] next_action \in {"s", "send"} ->
                    /\ InputReturns(TRUE, "none", subject, message)
                    /\ UNCHANGED draftVars
             [] next_action \in {"c", "cancel"} ->
                    /\ InputReturns(FALSE, "Editing cancelled", subject, message)
                    /\ UNCHANGED draftVars
             [] next_action = "other" ->
                    UNCHANGED <<wpc, wf_result, wfVars, draftVars, msgVars>>

\* The prompts of the message input, the lines loop apart.
MessagePrompts ==
    { "templates", "use_template", "subject", "confirm", "edit_menu",
      "edit_subject", "edit_body", "edit_add", "edit_replace", "edit_next" }

\* input() raises at one of them: EOFError is caught by the function asking
\* and comes back as a failure; KeyboardInterrupt reaches the caller's
\* handler, which leaves its menu loop.
MessageInputRaises ==
    /\ AnalyzerFrame
    /\ wpc \in MessagePrompts
    /\ \/ /\ Ask(wpc, "eof")
          /\ InputReturns(FALSE, "EOF when reading a line", subject, message)
       \/ /\ Ask(wpc, "interrupt")
          /\ WorkflowEnds("success")
          /\ UNCHANGED <<wfVars, msgVars>>
    /\ UNCHANGED draftVars

\* After _handle_message_sending: 'Do something else?' or 'Send another
\* message?'.
AfterMessage ==
    /\ AnalyzerFrame
    /\ wpc = "after_message"
    /\ \E choice \in {"y", "other", "interrupt", "eof"} :
        /\ Ask("after_message", choice)
        /\ CASE choice = "y" ->
                    /\ wpc' = IF caller = "single" THEN "action_menu" ELSE "msg_menu"
                    /\ UNCHANGED wf_result
             [] choice \in {"other", "interrupt"} -> WorkflowEnds("success")
             [] choice = "eof" -> WorkflowEnds("failure")
    /\ UNCHANGED <<wfVars, draftVars, msgVars>>

AnalyzerNext ==
    \/ StartWorkflow
    \/ AnswerContinue
    \/ ContinueInputRaises
    \/ ExtractRequests
    \/ ChooseRequest
    \/ ActionMenu
    \/ MessageMenu
    \/ TemplateMenu
    \/ UseTemplate
    \/ TypeSubject
    \/ TypeLine
    \/ ConfirmSend
    \/ EditMenu
    \/ EditSubject
    \/ EditBody
    \/ EditLines
    \/ EditNext
    \/ MessageInputRaises
    \/ AfterMessage

(***************************************************************************)
(* login-portal: RequestManager, behind PortalAgent's request analyses      *)
(***************************************************************************)
\* Requests the overview can list.
NumRequests == 2
Requests == 1..NumRequests

\* overview['request_numbers']: the requests of the table, each listed once.
RequestLists ==
    { s \in SeqsUpTo(Requests, NumRequests) :
        \A i, j \in DOMAIN s : i # j => s[i] # s[j] }

NoCounts == [r \in Requests |-> 0]
NoManagerResult == [success |-> FALSE, urgent_count |-> -1, error |-> "none"]

ManagerInit ==
    /\ mpc = "menu"
    /\ mgr_op = "none"
    /\ mgr_pass = 0
    /\ llm_helper = FALSE
    /\ listed = <<>>
    /\ request_numbers = <<>>
    /\ req_index = 1
    /\ opened = NoCounts
    /\ analysed = NoCounts
    /\ individual_analyses = <<>>
    /\ failed_analyses = <<>>
    /\ overall_summary = "None"
    /\ status_report = "none"
    /\ mgr_result = NoManagerResult

passVars == <<request_numbers, req_index, individual_analyses, failed_analyses,
              overall_summary>>
countVars == <<opened, analysed>>

\* dict.get(key, default): the default is returned only for a missing key.
DictGet(has_key, value, default) == IF has_key THEN value ELSE default

\* full_analysis.get('overall_summary', {}).get('recommended_actions', []):
\* the key is always there, so a summary of None is what .get is called on.
RecommendedActionsRaises(summary) ==
    DictGet(TRUE, summary, "{}") = "None"

\* The number of analyses that have action_required.
RECURSIVE UrgentCount(_)
UrgentCount(analyses) ==
    IF analyses = <<>> THEN 0
    ELSE (IF Head(analyses).action_required THEN 1 ELSE 0)
         + UrgentCount(Tail(analyses))

\* RequestManager.get_urgent_requests, given analyze_all_requests_intelligent's
\* result.
get_urgent_requests(analysis_ok, analyses, summary) ==
    IF ~analysis_ok
    THEN [success |-> FALSE, urgent_count |-> -1, error |-> "analysis failed"]
    ELSE IF RecommendedActionsRaises(summary)
    THEN [success |-> FALSE, urgent_count |-> -1,
          error |-> "'NoneType' object has no attribute 'get'"]
    ELSE [success |-> TRUE, urgent_count |-> UrgentCount(analyses), error |-> "none"]

\* RequestManager.generate_status_report, given the result of its own
\* analyze_all_requests_intelligent.
generate_status_report(analysis_ok, summary) ==
    IF ~analysis_ok THEN "failed"
    ELSE IF RecommendedActionsRaises(summary) THEN "failed"
    ELSE "ok"

\* analyze_all_requests_intelligent is entered.
BeginPass(pass) ==
    /\ mgr_pass' = pass
    /\ mpc' = "overview"
    /\ request_numbers' = <<>>
    /\ req_index' = 1
    /\ individual_analyses' = <<>>
    /\ failed_analyses' = <<>>
    /\ overall_summary' = "None"

\* Menu choice 4, confirmed: analyze_existing_requests(detailed_analysis=True)
\* of a logged-in agent builds a RequestManager and starts the analysis.
StartDetailedAnalysis ==
    /\ ManagerFrame
    /\ mpc = "menu"
    /\ mgr_op' = "detailed"
    /\ llm_helper' \in BOOLEAN
    /\ BeginPass(1)
    /\ listed' = <<>>
    /\ opened' = NoCounts
    /\ analysed' = NoCounts
    /\ status_report' = "none"
    /\ mgr_result' = NoManagerResult

\* Menu choice 5: get_urgent_requests_summary of a logged-in agent.
StartUrgentCheck ==
    /\ ManagerFrame
    /\ mpc = "menu"
    /\ mgr_op' = "urgent"
    /\ llm_helper' \in BOOLEAN
    /\ BeginPass(1)
    /\ listed' = <<>>
    /\ opened' = NoCounts
    /\ analysed' = NoCounts
    /\ status_report' = "none"
    /\ mgr_result' = NoManagerResult

\* analyze_all_requests_intelligent returned success False to its caller.
PassFails ==
    /\ mpc' = "returned"
    /\ IF mgr_op = "detailed" /\ mgr_pass = 2
       THEN \* generate_status_report returns success False; the analysis of
            \* analyze_existing_requests stands
            /\ status_report' = generate_status_report(FALSE, overall_summary)
            /\ UNCHANGED mgr_result
       ELSE /\ mgr_result' = IF mgr_op = "urgent"
                             THEN get_urgent_requests(FALSE, <<>>, "None")
                             ELSE [success |-> FALSE, urgent_count |-> -1,
                                   error |-> "analysis failed"]
            /\ UNCHANGED status_report

\* Steps 1 and 2 of analyze_all_requests_intelligent: the navigation and the
\* overview of the table.
AnalyzeOverview ==
    /\ ManagerFrame
    /\ mpc = "overview"
    /\ \/ \E numbers \in RequestLists :
            /\ request_numbers' = numbers
            /\ listed' = IF mgr_pass = 1 THEN numbers ELSE listed
            /\ mpc' = "requests"
            /\ UNCHANGED <<req_index, individual_analyses, failed_analyses,
                           overall_summary, status_report, mgr_result>>
       \/ /\ PassFails
          /\ UNCHANGED <<passVars, listed>>
    /\ UNCHANGED <<mgr_op, mgr_pass, llm_helper, countVars>>

\* One iteration of step 3: click_request, analyze_single_request_intelligent,
\* driver.back().
AnalyzeNextRequest ==
    /\ ManagerFrame
    /\ mpc = "requests"
    /\ req_index <= Len(request_numbers)
    /\ LET request_number == request_numbers[req_index] IN
       /\ req_index' = req_index + 1
       /\ \/ \* click_request fails or raises
             /\ failed_analyses' = Append(failed_analyses, request_number)
             /\ UNCHANGED <<opened, analysed, individual_analyses>>
          \/ \* the request is open and its analysis succeeds
             \E action_required \in BOOLEAN :
                /\ opened' = [opened EXCEPT ![request_number] = @ + 1]
                /\ analysed' = [analysed EXCEPT ![request_number] = @ + 1]
                /\ individual_analyses' =
                     Append(individual_analyses,
                            [request_number |-> request_number,
                             action_required |-> action_required])
                /\ UNCHANGED failed_analyses
          \/ \* the request is open and its analysis fails or raises
             /\ opened' = [opened EXCEPT ![request_number] = @ + 1]
             /\ analysed' = [analysed EXCEPT ![request_number] = @ + 1]
             /\ failed_analyses' = Append(failed_analyses, request_number)
             /\ UNCHANGED individual_analyses
    /\ UNCHANGED <<mpc, mgr_op, mgr_pass, llm_helper, listed, request_numbers,
                   overall_summary, status_report, mgr_result>>

\* Step 4 and the result of analyze_all_requests_intelligent, then what its
\* caller does with it.
FinishPass ==
    /\ ManagerFrame
    /\ mpc = "requests"
    /\ req_index > Len(request_numbers)
    /\ \E summary_ok \in BOOLEAN :
         overall_summary' =
            IF llm_helper /\ individual_analyses # <<>> /\ summary_ok
            THEN "dict" ELSE "None"
    /\ CASE mgr_op = "urgent" ->
               /\ mgr_result' = get_urgent_requests(TRUE, individual_analyses,
                                                    overall_summary')
               /\ mpc' = "returned"
               /\ UNCHANGED <<mgr_pass, request_numbers, req_index,
                              individual_analyses, failed_analyses, status_report>>
         [] mgr_op = "detailed" /\ mgr_pass = 1 ->
               \* analyze_existing_requests: the analysis succeeded, so
               \* generate_status_report is called, which analyses again
               /\ mgr_result' = [success |-> TRUE, urgent_count |-> -1,
                                 error |-> "none"]
               /\ mgr_pass' = 2
               /\ mpc' = "overview"
               /\ request_numbers' = <<>>
               /\ req_index' = 1
               /\ individual_analyses' = <<>>
               /\ failed_analyses' = <<>>
               /\ UNCHANGED status_report
         [] mgr_op = "detailed" /\ mgr_pass = 2 ->
               /\ status_report' = generate_status_report(TRUE, overall_summary')
               /\ mpc' = "returned"
               /\ UNCHANGED <<mgr_pass, mgr_result, request_numbers, req_index,
                              individual_analyses, failed_analyses>>
    /\ UNCHANGED <<mgr_op, llm_helper, listed, countVars>>

\* The result is shown and the menu comes back.
BackToMenu ==
    /\ ManagerFrame
    /\ mpc = "returned"
    /\ mpc' = "menu"
    /\ UNCHANGED <<mgr_op, mgr_pass, llm_helper, listed, passVars, countVars,
                   status_report, mgr_result>>

ManagerNext ==
    \/ StartDetailedAnalysis
    \/ StartUrgentCheck
    \/ AnalyzeOverview
    \/ AnalyzeNextRequest
    \/ FinishPass
    \/ BackToMenu

(***************************************************************************)
(* login-portal: RequestFilterManager.setup_filters, step by step           *)
(***************************************************************************)
\* The checkboxes of the filter panel as the browser shows them.
PageStates == [requester : BOOLEAN, open : BOOLEAN, closed : BOOLEAN]

FiltersInit ==
    /\ fpc = "idle"
    /\ page = [requester |-> FALSE, open |-> FALSE, closed |-> FALSE]
    /\ status_choice = "none"
    /\ status_set = TRUE
    /\ setup_result = "none"

\* _handle_checkbox_with_llm_selector with its fallback and the robust
\* check / uncheck: the element is found or not, it already has the wanted
\* state or one of the click strategies works or none does.
HandleCheckbox(current, should_be_checked, found, works) ==
    IF ~found THEN [state |-> current, ok |-> FALSE]
    ELSE IF current = should_be_checked THEN [state |-> current, ok |-> TRUE]
    ELSE IF works THEN [state |-> should_be_checked, ok |-> TRUE]
    ELSE [state |-> current, ok |-> FALSE]

\* _get_user_status_choice: the answer to 'Enter choice (1-3)'.
StatusChoice(choice) ==
    CASE choice = "1" -> "open"
      [] choice = "2" -> "closed"
      [] choice = "3" -> "both"
      [] choice = "interrupt" -> "both"
      [] OTHER -> "none"

\* The checkbox _handle_status_checkboxes_with_llm checks first, and the
\* one it unchecks second.
FirstStatusBox(choice) == IF choice = "open" THEN "open" ELSE "closed"
SecondStatusBox(choice) == IF choice = "open" THEN "closed" ELSE "open"

\* navigate_to_all_requests: the page is there, with its checkboxes in
\* whatever state the portal gives them.
LoadFilterPage ==
    /\ FiltersFrame
    /\ fpc = "idle"
    /\ page' \in PageStates
    /\ fpc' = "analysis"
    /\ status_choice' = "none"
    /\ status_set' = TRUE
    /\ setup_result' = "none"

\* Step 1: _analyze_html_with_llm and the confidence test.
AnalyzeHtml ==
    /\ FiltersFrame
    /\ fpc = "analysis"
    /\ \E analysis_ok \in BOOLEAN :
         IF analysis_ok
         THEN fpc' = "requester" /\ UNCHANGED setup_result
         ELSE /\ fpc' = "done"
              /\ setup_result' =
                   IF setup_filters(FALSE, TRUE, TRUE, TRUE) THEN "True" ELSE "False"
    /\ UNCHANGED <<page, status_choice, status_set>>

\* Step 2: the Requester checkbox.
HandleRequester ==
    /\ FiltersFrame
    /\ fpc = "requester"
    /\ \E found \in BOOLEAN, works \in BOOLEAN :
         LET r == HandleCheckbox(page.requester, TRUE, found, works) IN
         /\ page' = [page EXCEPT !.requester = r.state]
         /\ IF r.ok
            THEN fpc' = "choice" /\ UNCHANGED setup_result
            ELSE /\ fpc' = "done"
                 /\ setup_result' =
                      IF setup_filters(TRUE, FALSE, TRUE, TRUE) THEN "True" ELSE "False"
    /\ UNCHANGED <<status_choice, status_set>>

\* Step 3: _get_user_status_choice.
GetUserStatusChoice ==
    /\ FiltersFrame
    /\ fpc = "choice"
    /\ \E choice \in {"1", "2", "3", "other", "interrupt"} :
         /\ status_choice' = StatusChoice(choice)
         /\ fpc' = CASE StatusChoice(choice) = "none" -> "choice"
                     [] StatusChoice(choice) = "both" -> "apply"
                     [] OTHER -> "status_first"
    /\ UNCHANGED <<page, status_set, setup_result>>

\* Step 4, first half: the chosen status checkbox is to be checked.
HandleStatusFirst ==
    /\ FiltersFrame
    /\ fpc = "status_first"
    /\ \E found \in BOOLEAN, works \in BOOLEAN :
         LET box == FirstStatusBox(status_choice)
             r == HandleCheckbox(page[box], TRUE, found, works) IN
         /\ page' = [page EXCEPT ![box] = r.state]
         /\ status_set' = r.ok
    /\ fpc' = "status_second"
    /\ UNCHANGED <<status_choice, setup_result>>

\* Step 4, second half: the other status checkbox is to be unchecked.
HandleStatusSecond ==
    /\ FiltersFrame
    /\ fpc = "status_second"
    /\ \E found \in BOOLEAN, works \in BOOLEAN :
         LET box == SecondStatusBox(status_choice)
             r == HandleCheckbox(page[box], FALSE, found, works) IN
         /\ page' = [page EXCEPT ![box] = r.state]
         /\ status_set' = (status_set /\ r.ok)
    /\ fpc' = "apply"
    /\ UNCHANGED <<status_choice, setup_result>>

\* Step 5: Ctrl+Enter, and the value setup_filters returns.
ApplyFilters ==
    /\ FiltersFrame
    /\ fpc = "apply"
    /\ \E apply_ok \in BOOLEAN :
         setup_result' =
            IF setup_filters(TRUE, TRUE, status_set, apply_ok) THEN "True" ELSE "False"
    /\ fpc' = "done"
    /\ UNCHANGED <<page, status_choice, status_set>>

\* The workflow is run again from the menu.
FiltersAgain ==
    /\ FiltersFrame
    /\ fpc = "done"
    /\ fpc' = "idle"
    /\ UNCHANGED <<page, status_choice, status_set, setup_result>>

FiltersNext ==
    \/ LoadFilterPage
    \/ AnalyzeHtml
    \/ HandleRequester
    \/ GetUserStatusChoice
    \/ HandleStatusFirst
    \/ HandleStatusSecond
    \/ ApplyFilters
    \/ FiltersAgain

vars == <<crawlerVars, portalVars, analyzerVars, managerVars, filterVars>>

Init ==
    CrawlerInit /\ PortalInit /\ AnalyzerInit /\ ManagerInit /\ FiltersInit

SpecCrawler == Init /\ [][CrawlerNext]_vars

\* The event loop keeps running whatever is runnable.
SpecCrawlerFair ==
    /\ Init
    /\ [][CrawlerNext]_vars
    /\ WF_vars(CrawlerNext)

SpecPortal == Init /\ [][PortalNext]_vars

SpecAnalyzer == Init /\ [][AnalyzerNext]_vars

SpecManager == Init /\ [][ManagerNext]_vars

SpecFilters == Init /\ [][FiltersNext]_vars

(***************************************************************************)
(* find-portal: the claims                                                 *)
(***************************************************************************)
\* C1: the number of recorded attempts never exceeds max_attempts.
C1_AttemptBudget == Len(previous_attempts) <= max_attempts

\* C2: every execution of run() eventually leaves the exploration loop.
C2_LeavesLoop == <>(cpc \in {"done", "raised"})

\* C3: whenever run_agent is started for a URL, the URL is not yet in
\* visited_urls.
C3_NoUrlTwice ==
    [][ \A i \in DOMAIN tasks :
          (/\ cpc = "gather"
           /\ tasks[i].st = "new"
           /\ i \in DOMAIN tasks'
           /\ tasks'[i].st = "fetching")
          => tasks[i].url \notin visited_urls ]_vars

\* C4: whenever run() records a winner, that agent's latest validation
\* result is valid with confidence >= 0.95.
C4_WinnerHasFoundPortal ==
    winner_agent_id # NoAgent =>
        /\ agents[winner_agent_id].validation_result # <<>>
        /\ agents[winner_agent_id].validation_result[1].is_valid
        /\ agents[winner_agent_id].validation_result[1].confidence >= FoundConfidence

\* C5: when fetching or validating raises for one agent, the other agents of
\* the round are not cancelled and the crawl does not abort.
C5_AgentsIndependent ==
    (\E i \in DOMAIN tasks : tasks[i].st = "failed") =>
        /\ cpc # "raised"
        /\ \A j \in DOMAIN tasks : tasks[j].st # "cancelled"

\* The depth of a page: 0 for the start page, else the depth recorded when
\* the page was explored.
PageDepth(p) ==
    IF p = StartUrl \/ ~(\E i \in DOMAIN previous_attempts : previous_attempts[i].url = p)
    THEN 0
    ELSE previous_attempts[CHOOSE i \in DOMAIN previous_attempts :
                              /\ previous_attempts[i].url = p
                              /\ \A j \in 1..(i - 1) : previous_attempts[j].url # p].depth

\* The metadata m (an attempt or an agent state) is that of link l.
CarriesLink(m, depth, l) ==
    /\ m.parent_url = l.parent_url
    /\ m.depth_value = l.depth_value
    /\ depth = PageDepth(l.parent_url) + 1

\* C10: after an agent explores a link extracted from page P, the recorded
\* attempt and the agent's state carry parent_url = P, the depth of P plus
\* one, and the link's depth_value.
C10_DepthAndParentTracked ==
    \A i \in DOMAIN previous_attempts :
        LET a == previous_attempts[i]
            ag == agents[a.agent_id]
            from == { l \in exploration_links : l.url = a.url }
        IN from # {} =>
            /\ \E l \in from : CarriesLink(a, a.depth, l)
            /\ ag.current_url = a.url =>
                 \E l \in from : CarriesLink(ag, ag.current_depth, l)

(***************************************************************************)
(* login-portal: the claims                                                *)
(***************************************************************************)
\* C6: an operation that needs a session uses the browser or the LLM only
\* when is_logged_in is true; otherwise it returns success False with its
\* 'Must be logged in ...' error and uses neither.
C6_LoginGate ==
    last_call.op \in GuardedOps =>
        /\ last_call.browser => is_logged_in
        /\ ~is_logged_in =>
              /\ ~last_call.success
              /\ last_call.error = MustBeLoggedIn(last_call.op)
              /\ ~last_call.browser

\* C6 witness: after a failed login, an operation was refused.
C6_Witness ==
    /\ login.result = "failure"
    /\ ~is_logged_in
    /\ last_call.op = "analyze_existing_requests"
    /\ last_call.error = "Must be logged in to analyze requests"

\* C9: attempt_login reports a failure of the sign-in click or of the submit
\* click only after every selector of the list has been tried.
C9_EverySelectorTried ==
    /\ (login.result = "failure" /\ login.stage = "sign_in")
          => login.tried_sign_in = NumSignInSelectors
    /\ (login.result = "failure" /\ login.stage = "submit")
          => login.tried_submit = NumSubmitSelectors

(***************************************************************************)
(* Claims about RequestAnalyzer                                            *)
(***************************************************************************)
\* The answers that confirm the message just previewed.
FinalConfirmations ==
    { [prompt |-> p, answer |-> a] :
        p \in {"confirm", "use_template"}, a \in {"y", "yes"} }
    \cup { [prompt |-> "edit_next", answer |-> a] : a \in {"s", "send"} }

\* The answers by which the user cancels a message.
CancelAnswers ==
    { [prompt |-> "lines", answer |-> "CANCEL"],
      [prompt |-> "templates", answer |-> "6"] }
    \cup { [prompt |-> "confirm", answer |-> a] : a \in {"n", "no"} }
    \cup { [prompt |-> "edit_next", answer |-> a] : a \in {"c", "cancel"} }
    \cup { [prompt |-> p, answer |-> "interrupt"] :
             p \in MessagePrompts \cup {"lines"} }

\* C7: when _handle_message_sending has invoked send_message_to_request, the
\* user's last answer was a final confirmation (y/yes to 'Send this
\* message?', y/yes to 'Use this template?', s/send after an edit) and what
\* was sent is the subject and body last previewed; after a cancelling
\* answer (CANCEL, option 6, n/no, c/cancel, Ctrl-C) the message dialogue is
\* over and nothing was sent.
C7_SendOnlyAfterConfirmation ==
    /\ (wpc = "after_message" /\ sent # <<>>) =>
          /\ last_answer \in FinalConfirmations
          /\ sent[1] = preview
    /\ last_answer \in CancelAnswers =>
          /\ sent = <<>>
          /\ wpc \in {"after_message", "ended"}

\* A message edited after the template preview is sent on 's'.
C7_Witness ==
    /\ wpc = "after_message"
    /\ sent # <<>>
    /\ last_answer = [prompt |-> "edit_next", answer |-> "s"]
    /\ sent[1].message # <<sent[1].subject>>

\* C8: the request list is extracted only after setup_filters returned True
\* or the user answered y/yes to 'Continue anyway?'; after n/no the workflow
\* has ended with success False and nothing was extracted.
C8_ExtractAfterFiltersOrConsent ==
    /\ extracted => (filters_result = "true" \/ continue_answer \in {"y", "yes"})
    /\ continue_answer \in {"n", "no"} =>
          /\ wpc = "ended"
          /\ wf_result = "failure"
          /\ ~extracted

\* The filters failed, the user went on, and the list was extracted.
C8_Witness ==
    /\ extracted
    /\ filters_result = "false"
    /\ continue_answer = "yes"

(***************************************************************************)
(* Claims about RequestManager                                             *)
(***************************************************************************)
ListedRequests == { listed[i] : i \in DOMAIN listed }

\* C11: when a detailed analysis of all requests has returned success, no
\* request listed in the overview was opened or analysed more than once (the
\* half of 'exactly once' that no failing click can excuse).
C11_EachRequestOnce ==
    (mpc = "returned" /\ mgr_op = "detailed" /\ mgr_result.success) =>
        \A r \in ListedRequests : opened[r] <= 1 /\ analysed[r] <= 1

\* analyze_all_requests_intelligent succeeded for get_urgent_requests.
UrgentAnalysisSucceeded ==
    /\ mpc = "returned"
    /\ mgr_op = "urgent"
    /\ mgr_result.error # "analysis failed"

\* C12: when the all-requests analysis succeeded and no analysed request
\* requires action, get_urgent_requests returns success True with
\* urgent_count 0, also when nothing was analysed or there is no overall
\* summary.
C12_NoUrgentIsSuccess ==
    (UrgentAnalysisSucceeded /\ UrgentCount(individual_analyses) = 0) =>
        (mgr_result.success /\ mgr_result.urgent_count = 0)

(***************************************************************************)
(* Claims about RequestFilterManager                                       *)
(***************************************************************************)
\* C13: after setup_filters returned True, the Open and Closed checkboxes
\* match the user's status choice: 'open' leaves Open checked and Closed
\* unchecked, 'closed' the reverse, 'both' leaves both checked.
C13_StatusBoxesMatchChoice ==
    (fpc = "done" /\ setup_result = "True") =>
        /\ status_choice = "open" => (page.open /\ ~page.closed)
        /\ status_choice = "closed" => (page.closed /\ ~page.open)
        /\ status_choice = "both" => (page.open /\ page.closed)

(***************************************************************************)
(* Claims about the results of IndexCrawler.run                            *)
(***************************************************************************)
\* C14: when results are saved, successful_url is the winner's current_url
\* at the terminate decision, the URL of its latest validation result.
C14_SuccessfulUrlIsWinnersCurrent ==
    (cpc = "done" /\ results_file # <<>>) =>
        results_file[1].successful_url = agents[winner_agent_id].current_url

\* run() leaves its loop through a 'terminate' decision in this step.
TerminateStep ==
    /\ cpc = "loop"
    /\ Len(previous_attempts) < max_attempts
    /\ cpc' = "done"

\* C15: whenever run() leaves its loop through 'terminate', the result files
\* are written and name the winner the orchestrator chose.
C15_TerminateWritesResults ==
    [][ TerminateStep =>
          /\ results_file' # <<>>
          /\ results_file'[1].winner_agent_id = winner_agent_id' ]_vars

\* A recorded attempt that found the page: valid with confidence >= 0.95.
FoundAttempt(a) ==
    /\ a.validation_result.is_valid
    /\ a.validation_result.confidence >= FoundConfidence

\* C16: the warning 'Reached maximum attempts without finding correct page'
\* is logged only if no recorded attempt is a valid page with confidence
\* >= 0.95.
C16_WarningOnlyWithoutFind ==
    warned =>
        \A i \in DOMAIN previous_attempts : ~FoundAttempt(previous_attempts[i])

====
